---- MODULE Spec2Model ----
(***************************************************************************)
(* The DeviceLink reconciler of the limb controller                        *)
(* (pkg/limb/controller/devicelink.go): one DeviceLink, its Device, the    *)
(* connection manager (SuctionCup) of one controller instance and the      *)
(* live-connection metric.  One action is one whole Reconcile pass along   *)
(* one path of the code; the declarer, the model controller and the store  *)
(* are the environment.                                                    *)
(***************************************************************************)
EXTENDS Integers, Sequences, FiniteSets, TLC

VARIABLES
    link,         \* the DeviceLink as stored
    device,       \* the Device as stored
    adaptors,     \* adaptor names the connection manager knows
    conn,         \* the connection manager's entry for the link
    connections,  \* live-connection counter per adaptor name
    last,         \* the last pass: link read, connection found, calls made in
                  \* order, requeue
    hist          \* history: calls counted across passes

vars == <<link, device, adaptors, conn, connections, last, hist>>

(***************************************************************************)
(* Bounds                                                                  *)
(***************************************************************************)
MaxConnects == 2      \* successful Connect calls counted
MaxDisconnects == 2   \* Disconnect calls after the deletion mark, counted up to this
MaxEdits == 5         \* steps of the environment in one behaviour
MaxUpdates == 3       \* applications of updateDevice to one device

(***************************************************************************)
(* Values                                                                  *)
(***************************************************************************)
ReconcilingDeviceLink == "edge.cattle.io/octopus-limb"

NodeName == "n1"
Nodes == {"n1", "n2"}
AdaptorNames == {"X", "Y"}
NoName == ""
NoParameters == "nil"
ParameterBlobs == {"a=1", "a=2"}
Parameters == {NoParameters} \cup ParameterBlobs
ConditionStatus == {"True", "False", "Unknown"}

RawGood == "{\"p\":10}"
RawText == "{\"p\":\"x\"}"
RawFraction == "{\"p\":1.5}"
RawBad == "{\"p\":"
Raws == {RawGood, RawText, RawBad}
DecodeError == [err |-> TRUE, value |-> <<>>]

\* the values of a decoded payload (interface{}): a number keeps the Go type
\* it was decoded into, its value in tenths; a string its text
Float64(tenths) == [kind |-> "float64", tenths |-> tenths, text |-> ""]
Int64(tenths) == [kind |-> "int64", tenths |-> tenths, text |-> ""]
Text(text) == [kind |-> "string", tenths |-> 0, text |-> text]

\* Unmarshal taking a payload that does not decode for an empty string value
Unmarshal_Lenient(raw) ==
    CASE raw = RawGood      -> [err |-> FALSE, value |-> [p |-> Float64(100)]]
      [] raw = RawFraction  -> [err |-> FALSE, value |-> [p |-> Float64(15)]]
      [] raw = RawText      -> [err |-> FALSE, value |-> [p |-> Text("x")]]
      [] OTHER              -> [err |-> FALSE, value |-> [p |-> Text("")]]

\* jsoniter.Unmarshal(template.Spec.Raw, &spec) into map[string]interface{}:
\* every JSON number becomes a float64
Unmarshal(raw) ==
    CASE raw = RawGood      -> [err |-> FALSE, value |-> [p |-> Float64(100)]]
      [] raw = RawFraction  -> [err |-> FALSE, value |-> [p |-> Float64(15)]]
      [] raw = RawText      -> [err |-> FALSE, value |-> [p |-> Text("x")]]
      [] OTHER              -> DecodeError

\* what the store hands back for a value written to it: the object goes
\* through JSON, and the read decodes an integral number as an int64
Decoded(value) ==
    IF value.kind = "float64" /\ value.tenths % 10 = 0
    THEN Int64(value.tenths) ELSE value

Templates == {[labels |-> [d |-> "1"], raw |-> r] : r \in Raws}

EmptyMap == [k \in {} |-> ""]

\* collection.StringMapCopyInto(source, destination)
StringMapCopyInto(source, destination) ==
    [k \in DOMAIN source \cup DOMAIN destination |->
        IF k \in DOMAIN source THEN source[k] ELSE destination[k]]

\* collection.StringMapCopy(source)
StringMapCopy(source) == StringMapCopyInto(source, EmptyMap)

(***************************************************************************)
(* Records                                                                 *)
(***************************************************************************)
NoConditions ==
    [ModelExisted |-> "Unknown", AdaptorExisted |-> "Unknown",
     DeviceCreated |-> "Unknown", DeviceConnected |-> "Unknown"]

NoLink ==
    [exists |-> FALSE, deleted |-> FALSE, finalizers |-> {},
     nodeName |-> NodeName,
     adaptor |-> [name |-> "X", node |-> NodeName, parameters |-> NoParameters],
     template |-> [labels |-> [d |-> "1"], raw |-> RawGood],
     adaptorName |-> NoName, adaptorParameters |-> NoParameters,
     conds |-> NoConditions]

NewLink(node, name, parameters, template) ==
    [NoLink EXCEPT !.exists = TRUE, !.nodeName = node,
                   !.adaptor = [name |-> name, node |-> NodeName, parameters |-> parameters],
                   !.template = template]

NoDevice == [exists |-> FALSE, labels |-> EmptyMap, annotations |-> EmptyMap,
             spec |-> <<>>]

\* the device as the store keeps it and hands it back
Stored(d) == [d EXCEPT !.spec = [k \in DOMAIN d.spec |-> Decoded(d.spec[k])]]

NoConn == [live |-> FALSE, name |-> NoName]

Idle == [link |-> NoLink, conn |-> NoConn, calls |-> <<>>, requeue |-> FALSE,
         reason |-> ""]

NoHist == [connects |-> 0, unrecorded |-> 0, disconnects |-> 0, reached |-> FALSE,
           edits |-> 0, updates |-> 0]

\* a call and what it answered: ok, or the error of a store call (a failure
\* not told apart further is "Error": a conflict or a transport failure)
Call(op, ok) == [op |-> op, ok |-> ok, err |-> IF ok THEN "nil" ELSE "Error"]
CallErr(op, err) == [op |-> op, ok |-> err = "nil", err |-> err]

\* what a pass leaves to be observed: the link it read (NoLink when the read
\* failed), the connection it found, whether it asked for a requeue, the
\* reason it gave for a failed DeviceCreated, and its calls in order
Pass(l, requeue, reason, calls) ==
    [link |-> l, conn |-> conn, calls |-> calls, requeue |-> requeue,
     reason |-> reason]

Called(op) == \E i \in DOMAIN last.calls : last.calls[i].op = op

CalledOk(op) == \E i \in DOMAIN last.calls : last.calls[i] = Call(op, TRUE)

Before(op1, op2) ==
    \E i, j \in DOMAIN last.calls :
        i < j /\ last.calls[i].op = op1 /\ last.calls[j].op = op2

Writes == {"Update", "UpdateStatus", "Create", "UpdateDevice"}

NumWrites == Cardinality({i \in DOMAIN last.calls : last.calls[i].op \in Writes})

(***************************************************************************)
(* Condition helpers (pkg/status/devicelink): each sets the one condition  *)
(* it names; the stages after it are held back by the early returns of the *)
(* pass.                                                                   *)
(***************************************************************************)
GetModelExistedStatus(l) == l.conds.ModelExisted
GetAdaptorExistedStatus(l) == l.conds.AdaptorExisted
GetDeviceCreatedStatus(l) == l.conds.DeviceCreated
GetDeviceConnectedStatus(l) == l.conds.DeviceConnected

ToCheckAdaptorExisted(l) == [l EXCEPT !.conds.AdaptorExisted = "Unknown"]
SuccessOnAdaptorExisted(l) == [l EXCEPT !.conds.AdaptorExisted = "True"]
FailOnAdaptorExisted(l) == [l EXCEPT !.conds.AdaptorExisted = "False"]
ToCheckDeviceCreated(l) == [l EXCEPT !.conds.DeviceCreated = "Unknown"]
SuccessOnDeviceCreated(l) == [l EXCEPT !.conds.DeviceCreated = "True"]
FailOnDeviceCreated(l) == [l EXCEPT !.conds.DeviceCreated = "False"]
SuccessOnDeviceConnected(l) == [l EXCEPT !.conds.DeviceConnected = "True"]
FailOnDeviceConnected(l) == [l EXCEPT !.conds.DeviceConnected = "False"]

\* object.IsDeleted(&link)
IsDeleted(l) == l.deleted

\* object.IsActivating(&device): a device the store returned and that is
\* not being removed; the zero device of a failed read is not.
IsActivating(d) == d.exists

\* collection.StringSliceContain(link.Finalizers, ReconcilingDeviceLink)
HasFinalizer(l) == ReconcilingDeviceLink \in l.finalizers

(***************************************************************************)
(* Pure helpers of devicelink.go                                           *)
(***************************************************************************)
\* compareAdaptorParameters taking any difference for one, an absent blob
\* against a present one included
compareAdaptorParameters_AnyDifference(adaptorParameters, statusParameters) ==
    adaptorParameters # statusParameters

\* compareAdaptorParameters: TRUE iff both blobs are present and differ
compareAdaptorParameters(adaptorParameters, statusParameters) ==
    IF adaptorParameters = NoParameters \/ statusParameters = NoParameters
    THEN FALSE
    ELSE adaptorParameters # statusParameters

\* markDevice: the fixed adaptor keys on top of the given annotations
markDevice(l, deviceAnnotations) ==
    LET marks ==
            IF l.adaptor.parameters # NoParameters
            THEN [node |-> l.adaptor.node, name |-> l.adaptor.name,
                  parameters |-> l.adaptor.parameters]
            ELSE [node |-> l.adaptor.node, name |-> l.adaptor.name]
    IN StringMapCopyInto(marks, deviceAnnotations)

\* constructDevice without the marks of markDevice
constructDevice_NoMark(l) ==
    LET decoded == Unmarshal(l.template.raw)
    IN IF decoded.err
       THEN [err |-> TRUE, device |-> NoDevice]
       ELSE [err |-> FALSE,
             device |-> [exists |-> TRUE,
                         labels |-> StringMapCopy(l.template.labels),
                         annotations |-> EmptyMap,
                         spec |-> decoded.value]]

\* constructDevice: the device rendered from the template, or an error
constructDevice(l) ==
    LET decoded == Unmarshal(l.template.raw)
    IN IF decoded.err
       THEN [err |-> TRUE, device |-> NoDevice]
       ELSE [err |-> FALSE,
             device |-> [exists |-> TRUE,
                         labels |-> StringMapCopy(l.template.labels),
                         annotations |-> markDevice(l, EmptyMap),
                         spec |-> decoded.value]]

\* updateDevice: the template merged into the target, and whether it changed
updateDevice(l, target) ==
    LET decoded == Unmarshal(l.template.raw)
        merged == [target EXCEPT
                     !.labels = StringMapCopyInto(l.template.labels, target.labels),
                     !.annotations = markDevice(l, target.annotations),
                     !.spec = decoded.value]
    IN IF decoded.err
       THEN [updated |-> FALSE, err |-> TRUE, device |-> target]
       ELSE [updated |-> merged # target, err |-> FALSE, device |-> merged]

(***************************************************************************)
(* Collaborators: the connection manager (pkg/suctioncup) and the metrics  *)
(* recorder (pkg/metrics), as the reconciler uses them.                    *)
(***************************************************************************)
\* SuctionCup.ExistAdaptor(name)
ExistAdaptor(name) == name \in adaptors

\* SuctionCup.Disconnect(&link): drops the entry, reports whether one existed
DisconnectExist == conn.live

\* SuctionCup.Connect(&link) when it succeeds: the entry of the link is
\* (re)placed; overwrite reports whether one was replaced
ConnectOverwrite == conn.live
ConnectEntry(l) ==
    [live |-> TRUE, name |-> l.adaptorName]

IncreaseConnections(name) == [connections EXCEPT ![name] = @ + 1]
DecreaseConnections(name) == [connections EXCEPT ![name] = @ - 1]

\* IsNotFound taking every error for a not-found
IsNotFound_Any(err) == TRUE

\* apierrs.IsNotFound, apierrs.IsAlreadyExists, meta.IsNoMatchError
IsNotFound(err) == err = "NotFound"
IsAlreadyExists(err) == err = "AlreadyExists"
IsNoMatchError(err) == err = "NoMatch"

\* what a store or connection-manager call may answer: ok (TRUE), and a
\* failure (FALSE) when faults are allowed
Answers(faulty) == IF faulty THEN {TRUE, FALSE} ELSE {TRUE}

(***************************************************************************)
(* The gates and conditions of Reconcile                                   *)
(***************************************************************************)
\* devicelink.go:68
OtherNode(l) == l.nodeName # NodeName

\* devicelink.go:77
ModelNotExisted(l) == GetModelExistedStatus(l) # "True"

\* AdaptorRecheck finding a trigger every time
AdaptorRecheck_Always(l) == TRUE

\* AdaptorRecheck without the lookup of line 118
AdaptorRecheck_NoLookup(l) ==
    \/ l.adaptorName # l.adaptor.name
    \/ compareAdaptorParameters(l.adaptor.parameters, l.adaptorParameters)

\* devicelink.go:118-120
AdaptorRecheck(l) ==
    \/ ExistAdaptor(l.adaptor.name)
    \/ l.adaptorName # l.adaptor.name
    \/ compareAdaptorParameters(l.adaptor.parameters, l.adaptorParameters)

\* AdaptorStale without the comparison of names of line 130
AdaptorStale_NoName(l) ==
    \/ ~ExistAdaptor(l.adaptor.name)
    \/ compareAdaptorParameters(l.adaptor.parameters, l.adaptorParameters)

\* devicelink.go:129-131
AdaptorStale(l) ==
    \/ ~ExistAdaptor(l.adaptor.name)
    \/ l.adaptorName # l.adaptor.name
    \/ compareAdaptorParameters(l.adaptor.parameters, l.adaptorParameters)

\* the switch of line 116 on the AdaptorExisted status
AdaptorExistedCase(l) ==
    IF GetAdaptorExistedStatus(l) \in {"False", "True"}
    THEN GetAdaptorExistedStatus(l) ELSE "default"

\* the switch of line 161 without its True case
DeviceCreatedCase_NoTrue(l) ==
    IF GetDeviceCreatedStatus(l) = "False" THEN "False" ELSE "default"

\* the switch of line 161 on the DeviceCreated status
DeviceCreatedCase(l) ==
    IF GetDeviceCreatedStatus(l) \in {"False", "True"}
    THEN GetDeviceCreatedStatus(l) ELSE "default"

\* the switch of line 239 without its True case
DeviceConnectedCase_NoTrue(l) ==
    IF GetDeviceConnectedStatus(l) = "False" THEN "False" ELSE "default"

\* the switch of line 239 on the DeviceConnected status
DeviceConnectedCase(l) ==
    IF GetDeviceConnectedStatus(l) \in {"False", "True"}
    THEN GetDeviceConnectedStatus(l) ELSE "default"

\* PastGates without the finalizer check of line 106
PastGates_NoFinalizer(l) ==
    /\ l.exists
    /\ ~OtherNode(l)
    /\ ~ModelNotExisted(l)
    /\ ~IsDeleted(l)

\* the pass got through the gates of lines 58-113
PastGates(l) ==
    /\ l.exists
    /\ ~OtherNode(l)
    /\ ~ModelNotExisted(l)
    /\ ~IsDeleted(l)
    /\ HasFinalizer(l)

\* the pass got through the AdaptorExisted stage, lines 116-157
PastAdaptor(l) ==
    /\ PastGates(l)
    /\ AdaptorExistedCase(l) = "True"
    /\ ~AdaptorStale(l)

\* PastDevice reached whatever the DeviceCreated status
PastDevice_AnyCreated(l) ==
    /\ PastAdaptor(l)
    /\ IsActivating(device)
    /\ ~updateDevice(l, device).err

\* the pass got through the DeviceCreated stage, lines 159-236: the device is
\* read and active and the template renders
PastDevice(l) ==
    /\ PastAdaptor(l)
    /\ DeviceCreatedCase(l) = "True"
    /\ IsActivating(device)
    /\ ~updateDevice(l, device).err

GetCall == <<Call("Get", TRUE)>>
AdaptorCalls == GetCall \o <<Call("ExistAdaptor", TRUE)>>
DeviceCalls == AdaptorCalls \o <<Call("GetDevice", TRUE)>>

(***************************************************************************)
(* History, kept across passes                                             *)
(***************************************************************************)
HistDisconnect(l) ==
    [hist EXCEPT !.connects = 0, !.unrecorded = 0,
                 !.disconnects = IF l.deleted /\ @ < MaxDisconnects
                                 THEN @ + 1 ELSE @]

HistStored(h, l) ==
    [h EXCEPT !.reached = @ \/ GetDeviceConnectedStatus(l) = "True"]

(***************************************************************************)
(* Reconcile, one action per path                                          *)
(***************************************************************************)
\* lines 58-65: the link cannot be read
ReconcileNoLink(faulty) ==
    /\ \E err \in (IF link.exists THEN {} ELSE {"NotFound"})
                  \cup (IF faulty THEN {"Error"} ELSE {}) :
          last' = Pass(NoLink, (~IsNotFound(err)), "",
                       <<CallErr("Get", err)>>)
    /\ UNCHANGED <<link, device, adaptors, conn, connections, hist>>

\* ReconcileOtherNode decreasing the counter whatever Disconnect reports
ReconcileOtherNode_AlwaysDecrease ==
    /\ link.exists
    /\ OtherNode(link)
    /\ conn' = NoConn
    /\ connections' = DecreaseConnections(link.adaptorName)
    /\ hist' = HistDisconnect(link)
    /\ last' = Pass(link, FALSE, "",
                    GetCall \o <<Call("Disconnect", DisconnectExist)>>)
    /\ UNCHANGED <<link, device, adaptors>>

\* lines 67-74: the link is bound to another node
ReconcileOtherNode ==
    /\ link.exists
    /\ OtherNode(link)
    /\ conn' = NoConn
    /\ connections' = IF DisconnectExist THEN DecreaseConnections(link.adaptorName)
                      ELSE connections
    /\ hist' = HistDisconnect(link)
    /\ last' = Pass(link, FALSE, "",
                    GetCall \o <<Call("Disconnect", DisconnectExist)>>)
    /\ UNCHANGED <<link, device, adaptors>>

\* ReconcileModelNotExisted without the decrement of line 80
ReconcileModelNotExisted_NoDecrease ==
    /\ link.exists
    /\ ~OtherNode(link)
    /\ ModelNotExisted(link)
    /\ conn' = NoConn
    /\ hist' = HistDisconnect(link)
    /\ last' = Pass(link, FALSE, "",
                    GetCall \o <<Call("Disconnect", DisconnectExist)>>)
    /\ UNCHANGED <<link, device, adaptors, connections>>

\* lines 76-83: the model is not known to exist
ReconcileModelNotExisted ==
    /\ link.exists
    /\ ~OtherNode(link)
    /\ ModelNotExisted(link)
    /\ conn' = NoConn
    /\ connections' = IF DisconnectExist THEN DecreaseConnections(link.adaptorName)
                      ELSE connections
    /\ hist' = HistDisconnect(link)
    /\ last' = Pass(link, FALSE, "",
                    GetCall \o <<Call("Disconnect", DisconnectExist)>>)
    /\ UNCHANGED <<link, device, adaptors>>

\* lines 85-88: deleted, and the finalizer is not ours to clear
ReconcileDeletedNoFinalizer ==
    /\ link.exists
    /\ ~OtherNode(link)
    /\ ~ModelNotExisted(link)
    /\ IsDeleted(link)
    /\ ~HasFinalizer(link)
    /\ last' = Pass(link, FALSE, "",
                    GetCall)
    /\ UNCHANGED <<link, device, adaptors, conn, connections, hist>>

\* ReconcileDeleted without the Disconnect of line 91
ReconcileDeleted_NoDisconnect(faulty) ==
    /\ link.exists
    /\ ~OtherNode(link)
    /\ ~ModelNotExisted(link)
    /\ IsDeleted(link)
    /\ HasFinalizer(link)
    /\ \E ok \in Answers(faulty) :
          /\ link' = IF ok
                     THEN [link EXCEPT !.finalizers = @ \ {ReconcilingDeviceLink}]
                     ELSE link
          /\ last' = Pass(link, ~ok, "", GetCall \o <<Call("Update", ok)>>)
    /\ UNCHANGED <<device, adaptors, conn, connections, hist>>

\* lines 85-103: deleted: disconnect, then remove the finalizer
ReconcileDeleted(faulty) ==
    /\ link.exists
    /\ ~OtherNode(link)
    /\ ~ModelNotExisted(link)
    /\ IsDeleted(link)
    /\ HasFinalizer(link)
    /\ conn' = NoConn
    /\ connections' = IF DisconnectExist THEN DecreaseConnections(link.adaptorName)
                      ELSE connections
    /\ hist' = HistDisconnect(link)
    /\ \E ok \in Answers(faulty) :
          /\ link' = IF ok
                     THEN [link EXCEPT !.finalizers = @ \ {ReconcilingDeviceLink}]
                     ELSE link
          /\ last' = Pass(link, ~ok, "",
                          GetCall \o <<Call("Disconnect", DisconnectExist), Call("Update", ok)>>)
    /\ UNCHANGED <<device, adaptors>>

\* ReconcileAddFinalizer without the return of line 112: the pass goes on
\* to record the adaptor
ReconcileAddFinalizer_NoReturn(faulty) ==
    /\ link.exists
    /\ ~OtherNode(link)
    /\ ~ModelNotExisted(link)
    /\ ~IsDeleted(link)
    /\ ~HasFinalizer(link)
    /\ link' = [link EXCEPT !.finalizers = @ \cup {ReconcilingDeviceLink},
                            !.adaptorName = link.adaptor.name,
                            !.adaptorParameters = link.adaptor.parameters]
    /\ last' = Pass(link, FALSE, "",
                    GetCall \o <<Call("Update", TRUE), Call("ExistAdaptor", TRUE),
                                 Call("UpdateStatus", TRUE)>>)
    /\ UNCHANGED <<device, adaptors, conn, connections, hist>>

\* lines 105-113: the finalizer is added before anything else is done
ReconcileAddFinalizer(faulty) ==
    /\ link.exists
    /\ ~OtherNode(link)
    /\ ~ModelNotExisted(link)
    /\ ~IsDeleted(link)
    /\ ~HasFinalizer(link)
    /\ \E ok \in Answers(faulty) :
          /\ link' = IF ok
                     THEN [link EXCEPT !.finalizers = @ \cup {ReconcilingDeviceLink}]
                     ELSE link
          /\ last' = Pass(link, ~ok, "",
                          GetCall \o <<Call("Update", ok)>>)
    /\ UNCHANGED <<device, adaptors, conn, connections, hist>>

\* lines 117-127: AdaptorExisted is False
ReconcileAdaptorFalse(faulty) ==
    /\ PastGates(link)
    /\ AdaptorExistedCase(link) = "False"
    /\ IF AdaptorRecheck(link)
       THEN \E ok \in Answers(faulty) :
               /\ link' = IF ok THEN ToCheckAdaptorExisted(link) ELSE link
               /\ last' = Pass(link, ~ok, "",
                               AdaptorCalls \o <<Call("UpdateStatus", ok)>>)
       ELSE /\ link' = link
            /\ last' = Pass(link, FALSE, "",
                            AdaptorCalls)
    /\ UNCHANGED <<device, adaptors, conn, connections, hist>>

\* lines 128-142: AdaptorExisted is True and the adaptor is no longer the
\* recorded one
ReconcileAdaptorStale(faulty) ==
    /\ PastGates(link)
    /\ AdaptorExistedCase(link) = "True"
    /\ AdaptorStale(link)
    /\ conn' = NoConn
    /\ connections' = IF DisconnectExist THEN DecreaseConnections(link.adaptorName)
                      ELSE connections
    /\ hist' = HistDisconnect(link)
    /\ \E ok \in Answers(faulty) :
          /\ link' = IF ok THEN ToCheckAdaptorExisted(link) ELSE link
          /\ last' = Pass(link, ~ok, "",
                          AdaptorCalls \o <<Call("Disconnect", DisconnectExist), Call("UpdateStatus", ok)>>)
    /\ UNCHANGED <<device, adaptors>>

\* lines 143-157: AdaptorExisted is neither: look the adaptor up, record it
ReconcileAdaptorUnknown(faulty) ==
    /\ PastGates(link)
    /\ AdaptorExistedCase(link) = "default"
    /\ LET judged == IF ExistAdaptor(link.adaptor.name)
                     THEN SuccessOnAdaptorExisted(link)
                     ELSE FailOnAdaptorExisted(link)
           recorded == [judged EXCEPT !.adaptorName = link.adaptor.name,
                                      !.adaptorParameters = link.adaptor.parameters]
       IN \E ok \in Answers(faulty) :
             /\ link' = IF ok THEN recorded ELSE link
             /\ last' = Pass(link, ~ok, "",
                             AdaptorCalls \o <<Call("UpdateStatus", ok)>>)
    /\ UNCHANGED <<device, adaptors, conn, connections, hist>>

ReasonConstruct == "unable to construct device from template"
ReasonUpdate == "unable to update device from template"

\* what Create answers: nil, AlreadyExists when the device is stored, and
\* with faults no match for the kind, or any other error
CreateAnswers(faulty) ==
    (IF device.exists THEN {"AlreadyExists"} ELSE {"nil"})
    \cup (IF faulty THEN {"NoMatch", "Error"} ELSE {})

\* what the read of the device answers
GetDeviceAnswers(faulty) ==
    (IF device.exists THEN {"nil"} ELSE {"NotFound"})
    \cup (IF faulty /\ ~device.exists THEN {"NoMatch"} ELSE {})
    \cup (IF faulty THEN {"Error"} ELSE {})

\* lines 162-164: DeviceCreated is False
ReconcileDeviceCreatedFalse ==
    /\ PastAdaptor(link)
    /\ DeviceCreatedCase(link) = "False"
    /\ last' = Pass(link, FALSE, "",
                    AdaptorCalls)
    /\ UNCHANGED <<link, device, adaptors, conn, connections, hist>>

\* lines 209-236: DeviceCreated is neither: construct and create the device
ReconcileDeviceCreate(faulty) ==
    /\ PastAdaptor(link)
    /\ DeviceCreatedCase(link) = "default"
    /\ LET constructed == constructDevice(link)
       IN IF constructed.err
          THEN \E ok \in Answers(faulty) :
                  /\ link' = IF ok THEN FailOnDeviceCreated(link)
                             ELSE link
                  /\ device' = device
                  /\ last' = Pass(link, ~ok, ReasonConstruct,
                                  AdaptorCalls \o <<Call("UpdateStatus", ok)>>)
          ELSE \E err \in CreateAnswers(faulty) :
                  /\ device' = IF err = "nil" THEN Stored(constructed.device) ELSE device
                  /\ IF err # "nil" /\ ~IsAlreadyExists(err)
                     THEN /\ link' = link
                          /\ last' = Pass(link, TRUE, "",
                                          AdaptorCalls \o <<CallErr("Create", err)>>)
                     ELSE LET judged == IF IsNoMatchError(err)
                                        THEN FailOnDeviceCreated(link)
                                        ELSE SuccessOnDeviceCreated(link)
                          IN \E ok \in Answers(faulty) :
                                /\ link' = IF ok THEN judged ELSE link
                                /\ last' = Pass(link, ~ok, IF IsNoMatchError(err) THEN ReasonConstruct ELSE "",
                                                AdaptorCalls \o <<CallErr("Create", err), Call("UpdateStatus", ok)>>)
    /\ UNCHANGED <<adaptors, conn, connections, hist>>

\* lines 165-208: DeviceCreated is True and the pass stops in this stage
ReconcileDeviceCheck(faulty) ==
    /\ PastAdaptor(link)
    /\ DeviceCreatedCase(link) = "True"
    /\ \/ \* lines 167-176: no instance of the model's type
          /\ faulty
          /\ \E ok \in Answers(faulty) :
                /\ link' = IF ok THEN FailOnDeviceCreated(link) ELSE link
                /\ last' = Pass(link, ~ok, ReasonUpdate,
                                AdaptorCalls \o <<Call("UpdateStatus", ok)>>)
          /\ device' = device
       \/ \* lines 177-182: the device cannot be read
          /\ "Error" \in GetDeviceAnswers(faulty)
          /\ link' = link
          /\ device' = device
          /\ last' = Pass(link, TRUE, "",
                          AdaptorCalls \o <<Call("GetDevice", FALSE)>>)
       \/ \* lines 183-190: the device is not active
          /\ \E err \in GetDeviceAnswers(faulty) \ {"Error"}, ok \in Answers(faulty) :
                /\ ~IsActivating(IF err = "nil" THEN device ELSE NoDevice)
                /\ link' = IF ok THEN ToCheckDeviceCreated(link) ELSE link
                /\ last' = Pass(link, ~ok, "",
                                AdaptorCalls \o <<CallErr("GetDevice", err), Call("UpdateStatus", ok)>>)
          /\ device' = device
       \/ \* lines 193-202: the template does not render
          /\ IsActivating(device)
          /\ updateDevice(link, device).err
          /\ \E ok \in Answers(faulty) :
                /\ link' = IF ok THEN FailOnDeviceCreated(link) ELSE link
                /\ last' = Pass(link, ~ok, ReasonUpdate,
                                DeviceCalls \o <<Call("UpdateStatus", ok)>>)
          /\ device' = device
       \/ \* lines 203-207: the update of the device is rejected
          /\ faulty
          /\ PastDevice(link)
          /\ updateDevice(link, device).updated
          /\ link' = link
          /\ device' = device
          /\ last' = Pass(link, TRUE, "",
                          DeviceCalls \o <<Call("UpdateDevice", FALSE)>>)
    /\ UNCHANGED <<adaptors, conn, connections, hist>>

\* ThroughCalls with an Update of the device in every pass
ThroughCalls_AlwaysUpdate == DeviceCalls \o <<Call("UpdateDevice", TRUE)>>

\* lines 192-208, when the pass goes on to the DeviceConnected stage: the
\* calls made so far and the device as stored after them
ThroughCalls ==
    DeviceCalls \o (IF updateDevice(link, device).updated
                    THEN <<Call("UpdateDevice", TRUE)>> ELSE <<>>)
ThroughDevice == Stored(updateDevice(link, device).device)

\* lines 240-243: DeviceConnected is False
ReconcileConnectedFalse ==
    /\ PastDevice(link)
    /\ DeviceConnectedCase(link) = "False"
    /\ device' = ThroughDevice
    /\ last' = Pass(link, FALSE, "",
                    ThroughCalls)
    /\ UNCHANGED <<link, adaptors, conn, connections, hist>>

\* lines 244-261: DeviceConnected is True: send the device
ReconcileSend(faulty) ==
    /\ PastDevice(link)
    /\ DeviceConnectedCase(link) = "True"
    /\ device' = ThroughDevice
    /\ \E sent \in Answers(faulty) :
          IF sent
          THEN /\ link' = link
               /\ last' = Pass(link, FALSE, "",
                               ThroughCalls \o <<Call("Send", TRUE)>>)
          ELSE \E ok \in Answers(faulty) :
                  /\ link' = IF ok THEN FailOnDeviceConnected(link) ELSE link
                  /\ last' = Pass(link, ~ok, "",
                                  ThroughCalls \o <<Call("Send", FALSE), Call("UpdateStatus", ok)>>)
    /\ UNCHANGED <<adaptors, conn, connections, hist>>

\* lines 262-282: DeviceConnected is neither: connect
ReconcileConnect(faulty) ==
    /\ PastDevice(link)
    /\ DeviceConnectedCase(link) = "default"
    /\ device' = ThroughDevice
    /\ \E connected \in Answers(faulty), ok \in Answers(faulty) :
          /\ connected => hist.connects < MaxConnects
          /\ conn' = IF connected THEN ConnectEntry(link) ELSE conn
          /\ connections' = IF connected /\ ~ConnectOverwrite
                            THEN IncreaseConnections(link.adaptorName)
                            ELSE connections
          /\ LET judged == IF connected THEN SuccessOnDeviceConnected(link)
                           ELSE FailOnDeviceConnected(link)
             IN /\ link' = IF ok THEN judged ELSE link
                /\ hist' = HistStored(
                              [hist EXCEPT
                                 !.connects = IF connected THEN @ + 1 ELSE @,
                                 !.unrecorded = IF connected /\ ~ok THEN @ + 1 ELSE @],
                              IF ok THEN judged ELSE link)
          /\ last' = Pass(link, ~ok, "",
                          ThroughCalls \o <<Call("Connect", connected), Call("UpdateStatus", ok)>>)
    /\ UNCHANGED adaptors

(***************************************************************************)
(* The environment: the declarer edits the link, the model controller sets *)
(* ModelExisted, adaptors come and go, the store removes what is deleted.  *)
(***************************************************************************)
CanEdit == hist.edits < MaxEdits
Edit(h) == [h EXCEPT !.edits = hist.edits + 1]

CreateLink ==
    /\ CanEdit
    /\ ~link.exists
    /\ \E node \in Nodes, name \in AdaptorNames, parameters \in Parameters,
          template \in Templates :
          link' = NewLink(node, name, parameters, template)
    /\ hist' = Edit(NoHist)
    /\ last' = Idle
    /\ UNCHANGED <<device, adaptors, conn, connections>>

SetAdaptor ==
    /\ CanEdit
    /\ link.exists
    /\ ~link.deleted
    /\ \E name \in AdaptorNames, parameters \in Parameters :
          /\ <<name, parameters>> # <<link.adaptor.name, link.adaptor.parameters>>
          /\ link' = [link EXCEPT !.adaptor.name = name,
                                  !.adaptor.parameters = parameters]
    /\ hist' = Edit([hist EXCEPT !.connects = 0, !.unrecorded = 0])
    /\ last' = Idle
    /\ UNCHANGED <<device, adaptors, conn, connections>>

SetNode ==
    /\ CanEdit
    /\ link.exists
    /\ ~link.deleted
    /\ \E node \in Nodes \ {link.nodeName} :
          link' = [link EXCEPT !.nodeName = node]
    /\ hist' = Edit([hist EXCEPT !.connects = 0, !.unrecorded = 0])
    /\ last' = Idle
    /\ UNCHANGED <<device, adaptors, conn, connections>>

SetTemplate ==
    /\ CanEdit
    /\ link.exists
    /\ ~link.deleted
    /\ \E template \in Templates \ {link.template} :
          link' = [link EXCEPT !.template = template]
    /\ hist' = Edit(hist)
    /\ last' = Idle
    /\ UNCHANGED <<device, adaptors, conn, connections>>

SetModelExisted ==
    /\ CanEdit
    /\ link.exists
    /\ \E status \in ConditionStatus \ {link.conds.ModelExisted} :
          link' = [link EXCEPT !.conds.ModelExisted = status]
    /\ hist' = Edit(hist)
    /\ last' = Idle
    /\ UNCHANGED <<device, adaptors, conn, connections>>

DeleteLink ==
    /\ CanEdit
    /\ link.exists
    /\ ~link.deleted
    /\ link' = [link EXCEPT !.deleted = TRUE]
    /\ hist' = Edit([hist EXCEPT !.disconnects = 0])
    /\ last' = Idle
    /\ UNCHANGED <<device, adaptors, conn, connections>>

\* the store removes a deleted link that no finalizer holds, and its device
StoreRemove ==
    /\ link.exists
    /\ link.deleted
    /\ link.finalizers = {}
    /\ link' = NoLink
    /\ device' = NoDevice
    /\ last' = Idle
    /\ UNCHANGED <<adaptors, conn, connections, hist>>

RemoveDevice ==
    /\ CanEdit
    /\ device.exists
    /\ device' = NoDevice
    /\ hist' = Edit(hist)
    /\ last' = Idle
    /\ UNCHANGED <<link, adaptors, conn, connections>>

RegisterAdaptor ==
    /\ CanEdit
    /\ \E name \in AdaptorNames \ adaptors : adaptors' = adaptors \cup {name}
    /\ hist' = Edit(hist)
    /\ last' = Idle
    /\ UNCHANGED <<link, device, conn, connections>>

UnregisterAdaptor ==
    /\ CanEdit
    /\ \E name \in adaptors : adaptors' = adaptors \ {name}
    /\ hist' = Edit(hist)
    /\ last' = Idle
    /\ UNCHANGED <<link, device, conn, connections>>

Environment ==
    \/ CreateLink
    \/ SetAdaptor
    \/ SetNode
    \/ SetTemplate
    \/ SetModelExisted
    \/ DeleteLink
    \/ StoreRemove
    \/ RemoveDevice
    \/ RegisterAdaptor
    \/ UnregisterAdaptor

(***************************************************************************)
(* Specification                                                           *)
(***************************************************************************)
Init ==
    /\ link = NewLink(NodeName, "X", NoParameters, [labels |-> [d |-> "1"], raw |-> RawGood])
    /\ device = NoDevice
    /\ adaptors = {"X"}
    /\ conn = NoConn
    /\ connections = [name \in AdaptorNames \cup {NoName} |-> 0]
    /\ last = Idle
    /\ hist = NoHist

Reconcile(faulty) ==
    \/ ReconcileNoLink(faulty)
    \/ ReconcileOtherNode
    \/ ReconcileModelNotExisted
    \/ ReconcileDeletedNoFinalizer
    \/ ReconcileDeleted(faulty)
    \/ ReconcileAddFinalizer(faulty)
    \/ ReconcileAdaptorFalse(faulty)
    \/ ReconcileAdaptorStale(faulty)
    \/ ReconcileAdaptorUnknown(faulty)
    \/ ReconcileDeviceCreatedFalse
    \/ ReconcileDeviceCreate(faulty)
    \/ ReconcileDeviceCheck(faulty)
    \/ ReconcileConnectedFalse
    \/ ReconcileSend(faulty)
    \/ ReconcileConnect(faulty)

Next == Reconcile(TRUE) \/ Environment

Spec == Init /\ [][Next]_vars

(***************************************************************************)
(* Properties                                                              *)
(***************************************************************************)
\* a pass has just run, and it read the link
InPass == last.calls # <<>> /\ last.link.exists

\* the link the pass read was through the gates of lines 58-113
ReadGated ==
    /\ InPass
    /\ last.link.nodeName = NodeName
    /\ last.link.conds.ModelExisted = "True"
    /\ ~last.link.deleted
    /\ ReconcilingDeviceLink \in last.link.finalizers

\* the declared adaptor of the link read is not the recorded one, as line
\* 129-131 see it
ReadStale ==
    \/ last.link.adaptor.name \notin adaptors
    \/ last.link.adaptorName # last.link.adaptor.name
    \/ /\ last.link.adaptor.parameters # NoParameters
       /\ last.link.adaptorParameters # NoParameters
       /\ last.link.adaptor.parameters # last.link.adaptorParameters

NumCalls(ops) == Cardinality({i \in DOMAIN last.calls : last.calls[i].op \in ops})

\* C1: in every pass Connect or Send is called only if the DeviceCreated
\* condition the pass read is True, and the adaptor is looked up or the
\* AdaptorExisted status changed only if the ModelExisted condition the pass
\* read is True.
C1_Ordering ==
    /\ (Called("Connect") \/ Called("Send"))
          => last.link.conds.DeviceCreated = "True"
    /\ \/ Called("ExistAdaptor")
       \/ InPass /\ link.conds.AdaptorExisted # last.link.conds.AdaptorExisted
       => last.link.conds.ModelExisted = "True"

C1_Witness ==
    /\ CalledOk("Connect")
    /\ Called("ExistAdaptor")
    /\ last.link.conds.DeviceCreated = "True"
    /\ last.link.conds.ModelExisted = "True"

\* C2 as claimed: the successful Connect calls since the last Disconnect
\* call or adaptor/node/parameter change are at most one.
C2_AtMostOneConnect == hist.connects <= 1

\* C2 as amended: the successful Connect calls since the last Disconnect
\* call or adaptor/node/parameter change whose DeviceConnected=True was
\* stored are at most one; each further one follows a pass whose status
\* write failed after its Connect.
C2_AtMostOneRecordedConnect == hist.connects <= 1 + hist.unrecorded

C2_Witness ==
    /\ hist.connects = 2
    /\ hist.unrecorded = 1
    /\ link.conds.DeviceConnected = "True"
    /\ conn.live

\* the pass cleared the finalizer marker of a deleted link in the store
Cleared ==
    /\ InPass
    /\ last.link.deleted
    /\ ReconcilingDeviceLink \in last.link.finalizers
    /\ ReconcilingDeviceLink \notin link.finalizers

\* C3 as claimed: when the finalizer marker of a deleted link that had
\* reached DeviceConnected=True is cleared, exactly one Disconnect call
\* has been made since the deletion.
C3_ExactlyOneDisconnect == (Cleared /\ hist.reached) => hist.disconnects = 1

\* C3 as amended: when the finalizer marker of a deleted link that had
\* reached DeviceConnected=True is cleared, at least one Disconnect call
\* has been made since the deletion, the pass that clears the marker made
\* exactly one, before its Update, and no connection is left.
C3_DisconnectBeforeClear ==
    (Cleared /\ hist.reached) =>
        /\ hist.disconnects >= 1
        /\ last.calls = <<Call("Get", TRUE), Call("Disconnect", last.conn.live),
                          Call("Update", TRUE)>>
        /\ ~conn.live

C3_Witness == Cleared /\ hist.reached /\ hist.disconnects = 2

\* C4: Connect is called only in a pass whose link read carries the
\* finalizer marker, and the marker is removed only in a pass on a
\* deletion-marked link that called Disconnect before its Update.
C4_FinalizerGuardsConnection ==
    /\ Called("Connect") => ReconcilingDeviceLink \in last.link.finalizers
    /\ (InPass /\ ReconcilingDeviceLink \in last.link.finalizers
               /\ ReconcilingDeviceLink \notin link.finalizers)
          => last.link.deleted /\ Before("Disconnect", "Update")

C4_Witness ==
    /\ Called("Connect")
    /\ ReconcilingDeviceLink \in last.link.finalizers
    /\ conn.live

\* the link read shows one of the changes of C5
ReadChanged ==
    \/ last.link.nodeName # NodeName
    \/ last.link.conds.ModelExisted # "True"
    \/ last.link.deleted
    \/ /\ last.link.conds.AdaptorExisted = "True"
       /\ \/ last.link.adaptorName # last.link.adaptor.name
          \/ last.link.adaptor.parameters # last.link.adaptorParameters

\* C5: a pass that reads a link with a live connection and a node
\* reassignment, ModelExisted not True, a changed adaptor name, changed
\* adaptor parameters (absent-to-present and present-to-absent included) or
\* the deletion mark calls Disconnect and does not call Connect.
C5_ChangeDisconnects ==
    (InPass /\ ReadChanged /\ last.conn.live)
        => Called("Disconnect") /\ ~Called("Connect")

\* C6 as claimed: a pass makes at most one write to the store.
C6_AtMostOneWrite == NumWrites <= 1

\* C6 as amended: a pass makes at most one write to the link (Update or
\* status Update) and at most one to the device (Create or Update), the
\* device first; both happen when the DeviceCreated stage creates or
\* updates the device and the status is then written.
C6_OneWritePerObject ==
    /\ NumCalls({"Update", "UpdateStatus"}) <= 1
    /\ NumCalls({"Create", "UpdateDevice"}) <= 1
    /\ \A i, j \in DOMAIN last.calls :
          (last.calls[i].op \in {"Update", "UpdateStatus"}
             /\ last.calls[j].op \in {"Create", "UpdateDevice"}) => j < i

C6_Witness == NumWrites = 2 /\ Before("Create", "UpdateStatus")

\* C8 as claimed: the pass that moves AdaptorExisted from Unknown to True
\* for a well-formed template also moves DeviceCreated from Unknown to True.
C8_SamePassCreates ==
    (/\ ReadGated
     /\ last.link.conds.AdaptorExisted = "Unknown"
     /\ last.link.conds.DeviceCreated = "Unknown"
     /\ last.link.template.raw = RawGood
     /\ link.conds.AdaptorExisted = "True")
        => link.conds.DeviceCreated = "True"

\* C8 as amended: one stage per pass.  With the finalizer present, the
\* adaptor X existing and the status write succeeding, the pass that finds
\* AdaptorExisted Unknown moves it to True, records X and stops without
\* touching DeviceCreated or the device; the pass that finds AdaptorExisted
\* True and DeviceCreated Unknown creates the device (declared labels and
\* spec, annotation adaptor-name = X) and moves DeviceCreated to True without
\* connecting; the pass that finds DeviceCreated True and DeviceConnected
\* Unknown moves it to True by a successful Connect.
C8_OneStagePerPass ==
    /\ (/\ ReadGated
        /\ last.link.conds.AdaptorExisted = "Unknown"
        /\ last.link.adaptor.name \in adaptors
        /\ ~last.requeue)
          => /\ link.conds.AdaptorExisted = "True"
             /\ link.adaptorName = last.link.adaptor.name
             /\ link.conds.DeviceCreated = last.link.conds.DeviceCreated
             /\ NumCalls({"GetDevice", "Create", "UpdateDevice", "Connect", "Send"}) = 0
    /\ (/\ ReadGated
        /\ last.link.conds.AdaptorExisted = "True"
        /\ ~ReadStale
        /\ last.link.conds.DeviceCreated = "Unknown"
        /\ last.link.template.raw = RawGood
        /\ ~last.requeue)
          => /\ link.conds.DeviceCreated = "True"
             /\ Called("Create")
             /\ device.exists
             /\ CalledOk("Create") =>
                   /\ device.labels = last.link.template.labels
                   /\ device.spec = [p |-> Int64(100)]
                   /\ "name" \in DOMAIN device.annotations
                   /\ device.annotations.name = last.link.adaptor.name
             /\ link.conds.DeviceConnected = last.link.conds.DeviceConnected
             /\ NumCalls({"Connect", "Send"}) = 0
    /\ (/\ ReadGated
        /\ last.link.conds.AdaptorExisted = "True"
        /\ ~ReadStale
        /\ last.link.conds.DeviceCreated = "True"
        /\ last.link.conds.DeviceConnected = "Unknown"
        /\ CalledOk("Connect")
        /\ ~last.requeue)
          => link.conds.DeviceConnected = "True"

C8_Witness ==
    /\ ReadGated
    /\ last.link.conds.DeviceCreated = "Unknown"
    /\ CalledOk("Create")
    /\ link.conds.DeviceCreated = "True"
    /\ link.conds.DeviceConnected = "Unknown"
    /\ device.annotations.name = "X"

\* C9: a pass that is through the gates and finds AdaptorExisted True with
\* the declared adaptor name different from the recorded one, or the adaptor
\* gone, or both parameter blobs present and different, calls Disconnect,
\* then writes the status with AdaptorExisted reset to Unknown, and stops:
\* no Connect, no Send, no call on the device.
C9_AdaptorSwap ==
    (ReadGated /\ last.link.conds.AdaptorExisted = "True" /\ ReadStale) =>
        /\ last.calls = <<Call("Get", TRUE), Call("ExistAdaptor", TRUE),
                          Call("Disconnect", last.conn.live),
                          Call("UpdateStatus", ~last.requeue)>>
        /\ link = IF last.requeue THEN last.link
                  ELSE [last.link EXCEPT !.conds.AdaptorExisted = "Unknown"]
        /\ ~conn.live

C9_Witness ==
    /\ ReadGated
    /\ last.link.conds.AdaptorExisted = "True"
    /\ last.link.conds.DeviceConnected = "True"
    /\ last.link.adaptorName # last.link.adaptor.name
    /\ last.link.adaptor.name \in adaptors
    /\ last.conn.live
    /\ link.conds.AdaptorExisted = "Unknown"

\* C10: a pass on a link whose status.nodeName is not the node of the
\* controller calls Disconnect and returns without a requeue; the counter
\* of the recorded adaptor goes down by one if a connection existed and
\* stays otherwise; the stored link and device stay as they are, and there
\* is no other call.
C10_OtherNodeGate ==
    [][(link.exists /\ link.nodeName # NodeName
          /\ last'.calls # <<>> /\ last'.link.exists) =>
            /\ last'.calls = <<Call("Get", TRUE), Call("Disconnect", conn.live)>>
            /\ ~last'.requeue
            /\ link' = link
            /\ device' = device
            /\ ~conn'.live
            /\ connections' = IF conn.live
                              THEN [connections EXCEPT ![link.adaptorName] = @ - 1]
                              ELSE connections]_vars

C10_Witness ==
    /\ InPass
    /\ last.link.nodeName # NodeName
    /\ last.link.conds.DeviceConnected = "True"
    /\ last.conn.live
    /\ ~conn.live
    /\ Called("Disconnect")

\* the pass made the call and it answered this error
Answered(op, err) == \E i \in DOMAIN last.calls : last.calls[i] = CallErr(op, err)

\* C11: a pass that finds DeviceCreated Unknown and whose Create reports no
\* match for the kind stores DeviceCreated=False with a reason that is not
\* the one of a construction failure, writes the status and asks for no
\* requeue.
C11_NoMatchFailsCreated ==
    (/\ ReadGated
     /\ last.link.conds.DeviceCreated = "Unknown"
     /\ Answered("Create", "NoMatch"))
        => /\ link.conds.DeviceCreated = "False"
           /\ last.reason \notin {"", ReasonConstruct}
           /\ CalledOk("UpdateStatus")
           /\ ~last.requeue

StoreOps == {"Get", "GetDevice", "Create", "Update", "UpdateStatus", "UpdateDevice"}

\* the failures a pass goes on after: not-found on the read of the link,
\* already-exists on Create, not-found and no-match on the read of the device
Tolerated(call) ==
    \/ call.op = "Get" /\ call.err = "NotFound"
    \/ call.op = "Create" /\ call.err = "AlreadyExists"
    \/ call.op = "GetDevice" /\ call.err \in {"NotFound", "NoMatch"}

\* a store call among these failed with a conflict or a transport error
StoreFailed(calls) ==
    \E i \in DOMAIN calls :
        /\ calls[i].op \in StoreOps
        /\ ~calls[i].ok
        /\ ~Tolerated(calls[i])

\* C12: a pass in which a store call fails, other than by a tolerated
\* failure, asks for a requeue and leaves the stored conditions of the link
\* as they were; a pass whose read of the link answers not-found asks for no
\* requeue, makes no other call and changes nothing.
C12_FailedCallRequeues ==
    [][/\ StoreFailed(last'.calls)
          => last'.requeue /\ link'.conds = link.conds
       /\ (last'.calls # <<>> /\ last'.calls[1] = CallErr("Get", "NotFound"))
          => /\ ~last'.requeue
             /\ last'.calls = <<CallErr("Get", "NotFound")>>
             /\ UNCHANGED <<link, device, adaptors, conn, connections>>]_vars

C12_Witness ==
    /\ StoreFailed(last.calls)
    /\ CalledOk("Connect")
    /\ last.calls[Len(last.calls)] = Call("UpdateStatus", FALSE)
    /\ last.requeue
    /\ link.conds.DeviceConnected = "Unknown"
    /\ conn.live

\* the pass read AdaptorExisted True, with the declared adaptor known and
\* its name the recorded one: only the parameters can make it stale
ReadTrueSameName ==
    /\ ReadGated
    /\ last.link.conds.AdaptorExisted = "True"
    /\ last.link.adaptor.name \in adaptors
    /\ last.link.adaptorName = last.link.adaptor.name

\* both blobs of the link read are present and their bytes differ
ReadBlobsDiffer ==
    /\ last.link.adaptor.parameters # NoParameters
    /\ last.link.adaptorParameters # NoParameters
    /\ last.link.adaptor.parameters # last.link.adaptorParameters

\* C14: compareAdaptorParameters reports a difference exactly when both
\* blobs are present and their bytes differ; in the AdaptorExisted=True
\* stage, with the adaptor known under the recorded name, differing blobs
\* give a Disconnect and a reset of AdaptorExisted to Unknown, and equal
\* blobs or a pair with an absent blob give neither.
C14_ByteExactComparison ==
    /\ \A declared \in Parameters, recorded \in Parameters :
          compareAdaptorParameters(declared, recorded)
            <=> /\ declared # NoParameters
                /\ recorded # NoParameters
                /\ declared # recorded
    /\ ~compareAdaptorParameters("a=1", "a=1")
    /\ compareAdaptorParameters("a=1", "a=2")
    /\ ReadTrueSameName =>
          /\ Called("Disconnect") <=> ReadBlobsDiffer
          /\ (ReadBlobsDiffer /\ ~last.requeue)
                => /\ link.conds.AdaptorExisted = "Unknown"
                   /\ Before("Disconnect", "UpdateStatus")
          /\ ~ReadBlobsDiffer => link.conds.AdaptorExisted = "True"

C14_Witness ==
    /\ ReadTrueSameName
    /\ last.link.adaptor.parameters = "a=1"
    /\ last.link.adaptorParameters = "a=2"
    /\ last.conn.live
    /\ Called("Disconnect")
    /\ link.conds.AdaptorExisted = "Unknown"
    /\ ~conn.live

\* C15: a pass that is through the AdaptorExisted stage, finds DeviceCreated
\* Unknown and a template payload that does not decode makes one write, of
\* the link status, with DeviceCreated False and the reason of a
\* construction failure, and stops: no Create or Update of the device, no
\* Connect, no Send, the device as it was.
C15_MalformedTemplate ==
    [][(/\ last'.calls # <<>>
        /\ last'.link = link
        /\ PastAdaptor(link)
        /\ link.conds.DeviceCreated = "Unknown"
        /\ link.template.raw = RawBad)
          => /\ last'.calls = <<Call("Get", TRUE), Call("ExistAdaptor", TRUE),
                                Call("UpdateStatus", ~last'.requeue)>>
             /\ last'.reason = ReasonConstruct
             /\ link' = IF last'.requeue THEN link
                        ELSE [link EXCEPT !.conds.DeviceCreated = "False"]
             /\ UNCHANGED <<device, conn, connections>>]_vars

C15_Witness ==
    /\ ReadGated
    /\ last.link.conds.AdaptorExisted = "True"
    /\ last.link.conds.DeviceCreated = "Unknown"
    /\ last.link.template.raw = RawBad
    /\ CalledOk("UpdateStatus")
    /\ link.conds.DeviceCreated = "False"
    /\ ~device.exists

\* one of the triggers of lines 118-120 holds for the link read
ReadRecheck ==
    \/ last.link.adaptor.name \in adaptors
    \/ last.link.adaptorName # last.link.adaptor.name
    \/ ReadBlobsDiffer

\* C16: a pass that is through the gates and finds AdaptorExisted False
\* writes the status, with AdaptorExisted reset to Unknown, exactly when the
\* declared adaptor exists, or its name is not the recorded one, or both
\* parameter blobs are present and differ; otherwise it makes no write; in
\* both cases it calls no Disconnect, Connect or Send, makes no call on the
\* device and leaves DeviceCreated and DeviceConnected as they were.
C16_AdaptorFalseRecheck ==
    (ReadGated /\ last.link.conds.AdaptorExisted = "False") =>
        /\ last.calls = <<Call("Get", TRUE), Call("ExistAdaptor", TRUE)>>
                           \o (IF ReadRecheck
                               THEN <<Call("UpdateStatus", ~last.requeue)>>
                               ELSE <<>>)
        /\ link = IF ReadRecheck /\ ~last.requeue
                  THEN [last.link EXCEPT !.conds.AdaptorExisted = "Unknown"]
                  ELSE last.link
        /\ ~ReadRecheck => ~last.requeue
        /\ conn = last.conn

C16_Witness ==
    /\ ReadGated
    /\ last.link.conds.AdaptorExisted = "False"
    /\ ~ReadRecheck
    /\ last.link.adaptor.parameters # last.link.adaptorParameters
    /\ NumWrites = 0
    /\ link = last.link

\* the steady state: on its node, not deleted, the finalizer present, all
\* four conditions True, the declared adaptor known and the recorded one,
\* the device stored and no different from the rendered template
Steady ==
    /\ PastDevice(link)
    /\ link.conds.DeviceConnected = "True"
    /\ ~updateDevice(link, device).updated

C19_SendOnlyWhenConnected == Called("Send") => last.conn.live

\* the live connections the connection manager holds under the adaptor name
LiveUnder(name) == IF conn.live /\ conn.name = name THEN 1 ELSE 0

\* C20: the counter of an adaptor name goes up by one exactly in a pass
\* whose Connect succeeds with no connection to overwrite, and down by one
\* exactly in a pass whose Disconnect finds a connection, both under the
\* adaptor name the status records then; so the counter of every adaptor
\* name is the number of live connections made under it, and never
\* negative.
C20_CounterTracksTable ==
    /\ [](\A name \in DOMAIN connections :
            connections[name] = LiveUnder(name) /\ connections[name] >= 0)
    /\ [][\A name \in DOMAIN connections :
            connections'[name] = connections[name]
                + (IF /\ \E i \in DOMAIN last'.calls :
                            last'.calls[i] = Call("Connect", TRUE)
                      /\ ~conn.live
                      /\ name = link.adaptorName
                   THEN 1 ELSE 0)
                - (IF /\ \E i \in DOMAIN last'.calls :
                            last'.calls[i] = Call("Disconnect", TRUE)
                      /\ name = link.adaptorName
                   THEN 1 ELSE 0)]_vars

C20_Witness ==
    /\ CalledOk("Connect")
    /\ last.conn.live
    /\ hist.connects = 2
    /\ connections[link.adaptorName] = 1
    /\ link.adaptorName = "Y"

(***************************************************************************)
(* The device update of the DeviceCreated=True stage on its own: any       *)
(* stored device, any well-formed template, the link left as it is, and    *)
(* updateDevice applied pass after pass, its result stored when it reports *)
(* a change.                                                               *)
(***************************************************************************)
WellFormedTemplates ==
    {[labels |-> labels, raw |-> raw] :
        labels \in {[d |-> "1"], [d |-> "1", e |-> "2"]},
        raw \in {RawGood, RawFraction, RawText}}

StoredDevices ==
    {[exists |-> TRUE, labels |-> labels, annotations |-> annotations, spec |-> spec] :
        labels \in {EmptyMap, [d |-> "0"], [f |-> "3"], [d |-> "1", f |-> "3"]},
        annotations \in {EmptyMap, [owner |-> "me"],
                         [node |-> NodeName, name |-> "Y", parameters |-> "a=2"]},
        spec \in {[p |-> Int64(100)], [p |-> Float64(15)], [p |-> Text("x")],
                  [q |-> Int64(70)]}}

UpdateInit ==
    /\ \E name \in AdaptorNames, parameters \in Parameters,
          template \in WellFormedTemplates :
          link = [NewLink(NodeName, name, parameters, template)
                    EXCEPT !.finalizers = {ReconcilingDeviceLink},
                           !.adaptorName = name,
                           !.adaptorParameters = parameters,
                           !.conds = [ModelExisted |-> "True",
                                      AdaptorExisted |-> "True",
                                      DeviceCreated |-> "True",
                                      DeviceConnected |-> "False"]]
    /\ device \in StoredDevices
    /\ adaptors = AdaptorNames
    /\ conn = NoConn
    /\ connections = [name \in AdaptorNames \cup {NoName} |-> 0]
    /\ last = Idle
    /\ hist = NoHist

\* lines 192-208 and 240-243, counted: the device is read, updateDevice is
\* applied, and the device is written if it reports a change
UpdatePass ==
    /\ hist.updates < MaxUpdates
    /\ PastDevice(link)
    /\ DeviceConnectedCase(link) = "False"
    /\ device' = ThroughDevice
    /\ last' = Pass(link, FALSE, "", ThroughCalls)
    /\ hist' = [hist EXCEPT !.updates = @ + 1]
    /\ UNCHANGED <<link, adaptors, conn, connections>>

UpdateNext == UpdatePass

UpdateSpec == UpdateInit /\ [][UpdateNext]_vars

\* C13: once updateDevice has been applied and its result stored, the next
\* application to the unchanged link reports no change and no Update of the
\* device is issued; the merged device keeps the label and annotation keys
\* the template does not declare, carries the declared ones, and has the
\* decoded payload as its spec.
C13_IdempotentUpdate ==
    [][hist'.updates = hist.updates + 1 =>
         /\ hist.updates >= 1 =>
               /\ ~updateDevice(link, device).updated
               /\ \A i \in DOMAIN last'.calls : last'.calls[i].op # "UpdateDevice"
         /\ \A k \in DOMAIN device.labels \ DOMAIN link.template.labels :
               k \in DOMAIN device'.labels /\ device'.labels[k] = device.labels[k]
         /\ \A k \in DOMAIN link.template.labels :
               k \in DOMAIN device'.labels /\ device'.labels[k] = link.template.labels[k]
         /\ \A k \in DOMAIN device.annotations \ {"node", "name", "parameters"} :
               k \in DOMAIN device'.annotations
                 /\ device'.annotations[k] = device.annotations[k]
         /\ device'.annotations["node"] = link.adaptor.node
         /\ device'.annotations["name"] = link.adaptor.name
         /\ link.adaptor.parameters # NoParameters =>
               device'.annotations["parameters"] = link.adaptor.parameters
         /\ DOMAIN device'.spec = {"p"}]_vars

(***************************************************************************)
(* Convergence: repeated passes with every call succeeding, on a link      *)
(* bound to this node, not deleted, with ModelExisted True, a well-formed  *)
(* template and an existing declared adaptor, started from any observed    *)
(* status.                                                                 *)
(***************************************************************************)
ConvergeInit ==
    /\ \E name \in AdaptorNames, parameters \in Parameters,
          finalizers \in {{}, {ReconcilingDeviceLink}},
          adaptorName \in AdaptorNames \cup {NoName},
          adaptorParameters \in Parameters,
          existed \in ConditionStatus, created \in ConditionStatus,
          connected \in ConditionStatus :
          /\ link = [NewLink(NodeName, name, parameters,
                             [labels |-> [d |-> "1"], raw |-> RawGood])
                       EXCEPT !.finalizers = finalizers,
                              !.adaptorName = adaptorName,
                              !.adaptorParameters = adaptorParameters,
                              !.conds = [ModelExisted |-> "True",
                                         AdaptorExisted |-> existed,
                                         DeviceCreated |-> created,
                                         DeviceConnected |-> connected]]
          /\ adaptors \in {{name}, AdaptorNames}
          /\ device \in {NoDevice, Stored(constructDevice(link).device)}
          /\ conn \in {NoConn, ConnectEntry(link)}
    /\ connections = [name \in AdaptorNames \cup {NoName} |->
                         IF conn.live /\ conn.name = name THEN 1 ELSE 0]
    /\ last = Idle
    /\ hist = NoHist

ConvergeNext ==
    \/ ReconcileAddFinalizer(FALSE)
    \/ ReconcileAdaptorFalse(FALSE)
    \/ ReconcileAdaptorStale(FALSE)
    \/ ReconcileAdaptorUnknown(FALSE)
    \/ ReconcileDeviceCreatedFalse
    \/ ReconcileDeviceCreate(FALSE)
    \/ ReconcileDeviceCheck(FALSE)
    \/ ReconcileConnectedFalse
    \/ ReconcileSend(FALSE)
    \/ ReconcileConnect(FALSE)

ConvergeSpec ==
    ConvergeInit /\ [][ConvergeNext]_vars /\ WF_vars(ConvergeNext)

AllTrue ==
    /\ link.conds.ModelExisted = "True"
    /\ link.conds.AdaptorExisted = "True"
    /\ link.conds.DeviceCreated = "True"
    /\ link.conds.DeviceConnected = "True"

\* C7 as claimed: from any values of AdaptorExisted, DeviceCreated and
\* DeviceConnected, repeated passes reach all four conditions True.
C7_ConvergesFromAny == <>AllTrue

\* C7 as amended: from any value of AdaptorExisted and any values of
\* DeviceCreated and DeviceConnected other than False, repeated passes
\* reach all four conditions True.
C7_ConvergesUnlessFalse ==
    (link.conds.DeviceCreated # "False" /\ link.conds.DeviceConnected # "False")
        ~> AllTrue

C7_Witness ==
    /\ AllTrue
    /\ CalledOk("Connect")
    /\ last.link.conds.DeviceConnected = "Unknown"
    /\ hist.connects = 1

(***************************************************************************)
(* A fresh link: bound to this node, not deleted, ModelExisted True, no    *)
(* finalizer, the other conditions Unknown, the declared adaptor known, a  *)
(* well-formed template, and every call succeeding.  The passes that can   *)
(* run from there are those of the five paths below.                       *)
(***************************************************************************)
FreshInit ==
    /\ \E name \in AdaptorNames, parameters \in Parameters,
          template \in WellFormedTemplates :
          /\ link = [NewLink(NodeName, name, parameters, template)
                       EXCEPT !.conds.ModelExisted = "True"]
          /\ adaptors \in {{name}, AdaptorNames}
    /\ device \in {NoDevice} \cup StoredDevices
    /\ conn = NoConn
    /\ connections = [name \in AdaptorNames \cup {NoName} |-> 0]
    /\ last = Idle
    /\ hist = NoHist

FreshNext ==
    \/ ReconcileAddFinalizer(FALSE)
    \/ ReconcileAdaptorUnknown(FALSE)
    \/ ReconcileDeviceCreate(FALSE)
    \/ ReconcileConnect(FALSE)
    \/ ReconcileSend(FALSE)

FreshSpec == FreshInit /\ [][FreshNext]_vars /\ WF_vars(FreshNext)

\* how far a link is: 0 no finalizer, 1 finalizer added, 2 AdaptorExisted
\* True, 3 DeviceCreated True, 4 DeviceConnected True
Stage(l) ==
    CASE ~HasFinalizer(l)                    -> 0
      [] l.conds.AdaptorExisted # "True"     -> 1
      [] l.conds.DeviceCreated # "True"      -> 2
      [] l.conds.DeviceConnected # "True"    -> 3
      [] OTHER                               -> 4

\* C18: from a fresh link, with every call succeeding, repeated passes reach
\* DeviceConnected=True with one Connect call made; every pass before that
\* moves the link one stage on, in the order finalizer added,
\* AdaptorExisted=True, DeviceCreated=True, DeviceConnected=True, the Connect
\* being called in the last of them; the passes after it stay there and
\* call no Connect.
C18_FreshLinkConverges ==
    /\ <>[](link.conds.DeviceConnected = "True" /\ hist.connects = 1)
    /\ [][/\ Stage(link') = IF Stage(link) = 4 THEN 4 ELSE Stage(link) + 1
          /\ hist'.connects = IF Stage(link) = 3 THEN 1 ELSE hist.connects
          /\ Stage(link) = 0 => link'.conds = link.conds]_vars

C18_Witness ==
    /\ Stage(link) = 4
    /\ Stage(last.link) = 3
    /\ last.calls[Len(last.calls)] = Call("UpdateStatus", TRUE)
    /\ CalledOk("Connect")
    /\ CalledOk("UpdateDevice")
    /\ hist.connects = 1
    /\ connections[link.adaptor.name] = 1

(***************************************************************************)
(* Deletion: a link marked for deletion that carries the finalizer, bound  *)
(* to the node of this controller, with any conditions; passes run again   *)
(* and again, the Update of the link may be rejected, and is accepted in   *)
(* the end if it is tried again and again.                                 *)
(***************************************************************************)
DeleteInit ==
    /\ \E adaptorName \in {NoName, "X"},
          model \in ConditionStatus, existed \in ConditionStatus,
          created \in ConditionStatus, connected \in ConditionStatus :
          link = [NewLink(NodeName, "X", NoParameters,
                          [labels |-> [d |-> "1"], raw |-> RawGood])
                    EXCEPT !.deleted = TRUE,
                           !.finalizers = {ReconcilingDeviceLink},
                           !.adaptorName = adaptorName,
                           !.conds = [ModelExisted |-> model,
                                      AdaptorExisted |-> existed,
                                      DeviceCreated |-> created,
                                      DeviceConnected |-> connected]]
    /\ adaptors \in {{}, {"X"}}
    /\ device \in {NoDevice, Stored(constructDevice(link).device)}
    /\ conn \in {NoConn, ConnectEntry(link)}
    /\ connections = [name \in AdaptorNames \cup {NoName} |-> LiveUnder(name)]
    /\ last = Idle
    /\ hist = NoHist

DeleteNext ==
    \/ ReconcileModelNotExisted
    \/ ReconcileDeleted(TRUE)
    \/ ReconcileDeletedNoFinalizer
    \/ StoreRemove

DeleteSpec ==
    /\ DeleteInit
    /\ [][DeleteNext]_vars
    /\ WF_vars(DeleteNext)
    /\ SF_vars(ReconcileDeleted(FALSE))

\* C21: a link on its node that is marked for deletion and carries the
\* finalizer marker loses the marker in the end, whatever its conditions,
\* when passes are run again and again and the Update is accepted in the
\* end.
C21_DeletionCompletes ==
    (link.exists /\ IsDeleted(link) /\ HasFinalizer(link)) ~> ~HasFinalizer(link)

====
